---- MODULE Spec2Model ----
(***************************************************************************)
(* A model of metagpt/provider/openai_api.py: RateLimiter, CostManager,    *)
(* the two retry strategies, the completion calls and the batch            *)
(* dispatcher of OpenAIGPTAPI.                                             *)
(*                                                                         *)
(* Time is counted in tenths of a second, the precision to which the       *)
(* code rounds its back-off sleeps.  Money is counted in units of 1e-7     *)
(* dollar, so that (tokens * price) / 1000 with prices in 1e-4 dollar per  *)
(* 1000 tokens is an exact integer.                                        *)
(*                                                                         *)
(* Scheduling is asyncio's: one coroutine runs at a time and runs until    *)
(* its next await, so every action below is the code between two awaits.   *)
(* The clock advances only while every coroutine is suspended; a sleep     *)
(* lasts at least the time asked for.                                      *)
(***************************************************************************)
EXTENDS Integers, Sequences, FiniteSets, TLC

\* ------------------------------------------------------------------ bounds
MaxRpm == 2
MaxBatch == 3
MaxItem == 3
MaxTime == 1400
MaxCallTime == 60
StartTime == 2000
MaxCalls == 2
NumCallers == 2
MaxK == 2
MaxChunks == 2
MaxTextLen == 24
MaxWindowSize == 22
MaxWindows == 4

\* --------------------------------------------------------------- constants
Second == 10
Minute == 600
MAX_TRY == 5
STOP_AFTER_ATTEMPT == 3
WAIT_FIXED == 10
BACKOFF_MAX == 30
PADDING == 20

\* ----------------------------------------------------------------- helpers
Min(a, b) == IF a < b THEN a ELSE b

BoundedSeq(S, n) == UNION {[1..k -> S] : k \in 0..n}

RECURSIVE Flatten(_)
Flatten(ss) == IF ss = <<>> THEN <<>> ELSE Head(ss) \o Flatten(Tail(ss))

RECURSIVE SumSeq(_)
SumSeq(s) == IF s = <<>> THEN 0 ELSE Head(s) + SumSeq(Tail(s))

\* Python's range(start, stop, step) for step > 0, as a sequence.
RECURSIVE Range(_, _, _)
Range(start, stop, step) ==
    IF start >= stop THEN <<>> ELSE <<start>> \o Range(start + step, stop, step)

\* Python's s[i:j] for 0 <= i <= j (0-based, j clipped to len(s)).
Slice(s, i, j) == SubSeq(s, i + 1, Min(j, Len(s)))

\* ------------------------------------------------------------- RateLimiter
\* self.interval = 1.1 * 60 / rpm, in tenths of a second.
Interval(r) == (11 * Minute) \div (10 * r)

split_batches_step_off(batch, r) ==
    LET starts == Range(0, Len(batch), r + 1)
    IN  [j \in 1..Len(starts) |-> Slice(batch, starts[j], starts[j] + r)]

\* [batch[i: i + self.rpm] for i in range(0, len(batch), self.rpm)]
split_batches(batch, r) ==
    LET starts == Range(0, Len(batch), r)
    IN  [j \in 1..Len(starts) |-> Slice(batch, starts[j], starts[j] + r)]

\* ------------------------------------------------------------------- state
VARIABLES
    rpm,             \* RateLimiter.rpm (CONFIG "RPM")
    model,           \* OpenAIGPTAPI.model
    calc_usage,      \* CONFIG.calc_usage
    now,             \* time.time()
    last_call_time,  \* RateLimiter.last_call_time
    waiter,          \* the activations of wait_if_needed, one per caller
    admitted,        \* history: the last two admissions of wait_if_needed
    cost,            \* the CostManager's fields
    ledger,          \* history: the arguments of the update_cost calls so far
    batch,           \* the argument of split_batches / acompletion_batch
    chunks,          \* the value of split_batches(batch)
    bat,             \* the acompletion_batch coroutine
    task,            \* the completion coroutines (_achat_completion / _chat_completion)
    call,            \* the caller's completion / acompletion / acompletion_text call
    win              \* the activation of split_texts

vars == <<rpm, model, calc_usage, now, last_call_time, waiter, admitted, cost,
          ledger, batch, chunks, bat, task, call, win>>

\* ------------------------------------------------------------- split_texts
\* The locals of split_texts; pc is "loop" inside the while loop.
Win0 ==
    [pc |-> "idle", text |-> <<>>, window_size |-> 0, padding_size |-> 0,
     idx |-> 0, windows |-> <<>>]

\* ------------------------------------------------------------- price table
\* metagpt.utils.token_counter.TOKEN_COSTS, in 1e-4 dollar per 1000 tokens.
TOKEN_COSTS ==
    [m \in {"gpt-3.5-turbo", "gpt-4"} |->
        IF m = "gpt-4" THEN [prompt |-> 300, completion |-> 600]
                       ELSE [prompt |-> 15, completion |-> 20]]

Models == {"gpt-4", "my-model"}

\* ------------------------------------------------------------- CostManager
CostManager0 ==
    [total_prompt_tokens |-> 0, total_completion_tokens |-> 0,
     total_cost |-> 0, total_budget |-> 0]

update_cost_overwrite(cm, prompt_tokens, completion_tokens, m) ==
    LET counted == [cm EXCEPT !.total_prompt_tokens = @ + prompt_tokens,
                              !.total_completion_tokens = @ + completion_tokens]
    IN  IF m \in DOMAIN TOKEN_COSTS
        THEN [cm |-> [counted EXCEPT !.total_cost =
                        prompt_tokens * TOKEN_COSTS[m].prompt
                        + completion_tokens * TOKEN_COSTS[m].completion],
              raised |-> FALSE]
        ELSE [cm |-> counted, raised |-> TRUE]

\* CostManager.update_cost: the new fields, and whether the price lookup
\* raised KeyError (after the two token totals were already added to).
update_cost(cm, prompt_tokens, completion_tokens, m) ==
    LET counted == [cm EXCEPT !.total_prompt_tokens = @ + prompt_tokens,
                              !.total_completion_tokens = @ + completion_tokens]
    IN  IF m \in DOMAIN TOKEN_COSTS
        THEN [cm |-> [counted EXCEPT !.total_cost =
                        @ + prompt_tokens * TOKEN_COSTS[m].prompt
                          + completion_tokens * TOKEN_COSTS[m].completion],
              raised |-> FALSE]
        ELSE [cm |-> counted, raised |-> TRUE]

\* Python's None, and a dict lookup d[k] that raises when k is missing.
None == [none |-> TRUE]

HasKey(d, k) == k \in DOMAIN d

\* The usage dicts a response may report.
Usages ==
    {[prompt_tokens |-> 2, completion_tokens |-> 1],
     [prompt_tokens |-> 0, completion_tokens |-> 3]}

_update_costs_twice(cm, usage) ==
    IF calc_usage /\ HasKey(usage, "prompt_tokens") /\ HasKey(usage, "completion_tokens")
    THEN LET r1 == update_cost(cm, usage.prompt_tokens, usage.completion_tokens, model)
             r == update_cost(r1.cm, usage.prompt_tokens, usage.completion_tokens, model)
         IN  [cm |-> r.cm, called |-> TRUE, raised |-> r.raised]
    ELSE [cm |-> cm, called |-> FALSE, raised |-> FALSE]

_update_costs_always(cm, usage) ==
    IF HasKey(usage, "prompt_tokens") /\ HasKey(usage, "completion_tokens")
    THEN LET r == update_cost(cm, usage.prompt_tokens, usage.completion_tokens, model)
         IN  [cm |-> r.cm, called |-> TRUE, raised |-> r.raised]
    ELSE [cm |-> cm, called |-> FALSE, raised |-> FALSE]

\* OpenAIGPTAPI._update_costs: every exception of the try block is logged
\* and swallowed.  called: update_cost was invoked; raised: it raised.
_update_costs(cm, usage) ==
    IF calc_usage /\ HasKey(usage, "prompt_tokens") /\ HasKey(usage, "completion_tokens")
    THEN LET r == update_cost(cm, usage.prompt_tokens, usage.completion_tokens, model)
         IN  [cm |-> r.cm, called |-> TRUE, raised |-> r.raised]
    ELSE [cm |-> cm, called |-> FALSE, raised |-> FALSE]

\* History of the update_cost calls: the sums of the arguments and of the
\* individually computed costs of the calls that returned, and the number
\* of calls that raised.
Ledger0 == [prompt |-> 0, completion |-> 0, cost |-> 0, calls |-> 0, failed |-> 0]

Recorded(lg, r, usage) ==
    IF ~r.called THEN lg
    ELSE IF r.raised THEN [lg EXCEPT !.failed = @ + 1]
    ELSE [lg EXCEPT !.prompt = @ + usage.prompt_tokens,
                    !.completion = @ + usage.completion_tokens,
                    !.calls = @ + 1,
                    !.cost = @ + usage.prompt_tokens * TOKEN_COSTS[model].prompt
                               + usage.completion_tokens * TOKEN_COSTS[model].completion]

\* ------------------------------------------------------------------ errors
\* An exception object: its class, the coroutine and the attempt of func
\* that raised it (its identity), and its __cause__.
NoError == [kind |-> "none", by |-> 0, at |-> 0, cause |-> "none"]

Raised(kind, i, n) == [kind |-> kind, by |-> i, at |-> n, cause |-> "none"]

TransportErrors == {"RateLimitError", "APIConnectionError", "Timeout"}

\* ------------------------------------------------------------ the transport
\* A response envelope of ChatCompletion.create / acreate.
Response(prompt, usage) ==
    IF usage = None THEN [req |-> prompt, content |-> "hello"]
                    ELSE [req |-> prompt, content |-> "hello", usage |-> usage]

\* dict.get(key): None when the key is missing.
Get(d, k) == IF HasKey(d, k) THEN d[k] ELSE None

\* BaseGPTAPI.get_choice_text(rsp)
get_choice_text(rsp) == rsp.content

\* What one invocation of func may end in: a response reporting one of the
\* usages us, or one of the exceptions errs.
Outcomes(prompt, us, errs, i, n) ==
    {[ok |-> TRUE, rsp |-> Response(prompt, u), exc |-> NoError] : u \in us}
    \cup {[ok |-> FALSE, rsp |-> None, exc |-> Raised(k, i, n)] : k \in errs}

\* What acreate(..., stream=True) returns: an asynchronous generator of the
\* chunks of the reply to the request.
Stream(prompt) == [req |-> prompt, stream |-> TRUE]

\* What one invocation of acreate(..., stream=True) may end in.
StreamOutcomes(prompt, errs, i, n) ==
    {[ok |-> TRUE, rsp |-> Stream(prompt), exc |-> NoError]}
    \cup {[ok |-> FALSE, rsp |-> None, exc |-> Raised(k, i, n)] : k \in errs}

\* Text is a sequence of characters; the content fragments a chunk may carry.
Fragments == {<<"a">>, <<"b", "c">>}

\* chunk["choices"][0]["delta"]: with a content fragment or without one.
Deltas == {[role |-> "assistant"]} \cup {[content |-> f] : f \in Fragments}

\* The exceptions the generator may raise between two chunks.
StreamErrors == {"APIConnectionError", "Timeout"}

\* ------------------------------------------------ strategy 1: the retry loop
\* One activation of async_retry_call / retry_call with what surrounds it in
\* _achat_completion / _chat_completion.  tries is the number of invocations
\* of func so far (the loop index + 1); rl, exc, ret and sent are history:
\* how many invocations raised RateLimitError, the last exception func
\* raised, the value func returned, and when func was first invoked.
Task0 ==
    [pc |-> "idle", prompt |-> 0, tries |-> 0, wake |-> 0, rsp |-> None,
     err |-> NoError, rl |-> 0, exc |-> NoError, ret |-> None, sent |-> -1]

Created(prompt) == [Task0 EXCEPT !.prompt = prompt]

\* rsp = await func(*args, **kwargs): func is invoked once more.
Invoked(t) ==
    [t EXCEPT !.pc = "inflight", !.tries = @ + 1,
              !.sent = IF t.sent < 0 THEN now ELSE t.sent]

catches_everything(e) == TRUE

\* except openai.error.RateLimitError as e
catches(e) == e.kind = "RateLimitError"

\* except Exception as e: ... raise e
reraise(e) == e

\* raise openai.error.OpenAIError("Exceeds the maximum retries"): a new
\* exception object of the activation, raised outside any except block.
RetriesExhausted(t) ==
    [t EXCEPT !.pc = "failed", !.err = Raised("OpenAIError", t.exc.by, 0)]

continue_once_more(t) == IF t.tries <= MAX_TRY THEN Invoked(t) ELSE RetriesExhausted(t)

\* The next iteration of "for i in range(MAX_TRY)", or the statement after
\* the loop.
Continue(t) == IF t.tries < MAX_TRY THEN Invoked(t) ELSE RetriesExhausted(t)

\* async_retry_call when func raises e: sleep round(uniform(0, 3), 1) s and
\* continue, or log and re-raise.
async_on_raise(t, e, d) ==
    IF catches(e)
    THEN [t EXCEPT !.pc = "backoff", !.wake = now + d, !.rl = @ + 1, !.exc = e]
    ELSE [t EXCEPT !.pc = "failed", !.err = reraise(e), !.exc = e]

\* retry_call when func raises e: continue at once, or log and re-raise.
sync_on_raise(t, e) ==
    IF catches(e)
    THEN Continue([t EXCEPT !.rl = @ + 1, !.exc = e])
    ELSE [t EXCEPT !.pc = "failed", !.err = reraise(e), !.exc = e]

\* return rsp
on_return(t, rsp) == [t EXCEPT !.pc = "done", !.rsp = rsp]

\* _achat_completion: self._update_costs(rsp.get("usage"))
_achat_completion_usage(rsp) == Get(rsp, "usage")

\* _chat_completion: self._update_costs(rsp)
_chat_completion_usage(rsp) == rsp

\* Two of the values round(random.uniform(0, 3), 1) takes, in tenths of a second.
BackoffChoices == {0, BACKOFF_MAX}

\* The retry loop once the invocation in flight has ended in out.
Answered(t, out, sync, d) ==
    IF out.ok THEN on_return([t EXCEPT !.ret = out.rsp], out.rsp)
    ELSE IF sync THEN sync_on_raise(t, out.exc)
    ELSE async_on_raise(t, out.exc, d)

\* ------------------------------------------------------------------- clock
TickSteps == {Second}

\* The times at which a suspended coroutine is due to wake.
WakeTimes ==
    {task[i].wake : i \in {j \in DOMAIN task : task[j].pc = "backoff"}}
    \cup {waiter[c].wake : c \in {x \in DOMAIN waiter : waiter[x].pc = "sleeping"}}
    \cup (IF call.pc = "waiting" THEN {call.wake} ELSE {})

\* Time passes while every coroutine is suspended: by a step, or up to the
\* time at which a sleeper is due.
Elapse(steps, limit) ==
    /\ \E t \in {now + d : d \in steps} \cup WakeTimes :
          /\ t > now
          /\ t <= StartTime + limit
          /\ now' = t
    /\ UNCHANGED <<win, rpm, model, calc_usage, last_call_time, waiter, admitted, cost,
                   ledger, batch, chunks, bat, task, call>>

\* --------------------------------------------- strategy 2: tenacity's @retry
retry_if_openai_error(e) == e.kind \in {"APIConnectionError", "OpenAIError"}

\* retry=retry_if_exception_type(APIConnectionError)
retry_if_exception_type(e) == e.kind = "APIConnectionError"

\* stop=stop_after_attempt(3)
stop_after_attempt(attempt) == attempt >= STOP_AFTER_ATTEMPT

raise_retry_error(e) == [e EXCEPT !.kind = "RetryError", !.cause = e.kind]

\* retry_error_callback=log_and_reraise: raise retry_state.outcome.exception()
log_and_reraise(e) == e

\* ------------------------------------------------------- one completion call
Kinds == {"completion", "acompletion", "acompletion_text"}

\* ended / waited / conn are history: when the latest attempt of the body
\* raised, how long after the previous attempt raised the current one began,
\* and how many attempts raised APIConnectionError.  before is the
\* CostManager when the call was made.  stream is the argument of
\* acompletion_text, collected_messages the local of
\* _achat_completion_stream, and printed is history: the arguments of the
\* print(chunk_message["content"], end="") calls of the current attempt.
\* invocations is history: how often the call has invoked the transport.
Call0 ==
    [kind |-> "none", pc |-> "idle", prompt |-> 0, attempt |-> 0, wake |-> 0,
     result |-> None, err |-> NoError, n |-> 0, before |-> CostManager0,
     ended |-> 0, waited |-> 0, conn |-> 0,
     stream |-> FALSE, collected_messages |-> <<>>, printed |-> <<>>,
     invocations |-> 0]

\* The caller's view when the body of the call raises e.
Propagate(c, e) ==
    IF c.kind # "acompletion_text" THEN [c EXCEPT !.pc = "raised", !.err = e]
    ELSE LET c1 == [c EXCEPT !.ended = now,
                             !.conn = IF e.kind = "APIConnectionError" THEN @ + 1 ELSE @]
         IN  IF ~retry_if_exception_type(e)
             THEN [c1 EXCEPT !.pc = "raised", !.err = e]
             ELSE IF stop_after_attempt(c.attempt)
             THEN [c1 EXCEPT !.pc = "raised", !.err = log_and_reraise(e)]
             ELSE [c1 EXCEPT !.pc = "waiting", !.wake = now + WAIT_FIXED]

\* The usage dict each entry point hands to _update_costs.
UsageArg(kind, rsp) ==
    IF kind = "completion" THEN _chat_completion_usage(rsp)
                           ELSE _achat_completion_usage(rsp)

\* What the call returns for the response rsp.
Result(kind, rsp) == IF kind = "acompletion_text" THEN get_choice_text(rsp) ELSE rsp

\* The call c after its retry loop has moved to t1.
Counted(c, t1) == [c EXCEPT !.invocations = @ + t1.tries - task[1].tries]

\* The rest of the call once its retry loop has moved to t1.
Settle(t1) ==
    /\ task' = [task EXCEPT ![1] = t1]
    /\ IF t1.pc = "done" /\ ~call.stream
       THEN LET usage == UsageArg(call.kind, t1.rsp)
                r == _update_costs(cost, usage)
            IN  /\ cost' = r.cm
                /\ ledger' = Recorded(ledger, r, usage)
                /\ call' = [Counted(call, t1) EXCEPT
                                !.pc = "returned",
                                !.result = Result(call.kind, t1.rsp)]
       ELSE /\ UNCHANGED <<cost, ledger>>
            /\ call' = IF t1.pc = "failed" THEN Propagate(Counted(call, t1), t1.err)
                       ELSE IF t1.pc = "done"
                       THEN [Counted(call, t1) EXCEPT !.pc = "streaming"]
                       ELSE Counted(call, t1)

\* The caller makes a completion call of kind k (its n-th, for the n-th
\* request); the body runs up to its first invocation of the transport.
Called(k, stream) ==
    /\ call.pc \in {"idle", "returned", "raised"}
    /\ call.n < MaxCalls
    /\ call' = [Call0 EXCEPT !.kind = k, !.pc = "running",
                             !.prompt = call.n + 1, !.attempt = 1,
                             !.n = call.n + 1, !.before = cost,
                             !.stream = stream, !.invocations = 1]
    /\ task' = [task EXCEPT ![1] = Invoked(Created(call.n + 1))]
    /\ UNCHANGED <<win, rpm, model, calc_usage, now, last_call_time, waiter, admitted,
                   cost, ledger, batch, chunks, bat>>

\* completion(messages), acompletion(messages) or acompletion_text(messages).
Invoke == \E k \in Kinds : Called(k, FALSE)

\* What the invocation in flight of call c may end in.
Transport(c, t) ==
    IF c.stream
    THEN StreamOutcomes(c.prompt, TransportErrors, c.attempt, t.tries)
    ELSE Outcomes(c.prompt, Usages \cup {None}, TransportErrors, c.attempt, t.tries)

\* The transport answers the invocation in flight.
Respond ==
    /\ call.pc = "running"
    /\ task[1].pc = "inflight"
    /\ \E out \in Transport(call, task[1]), d \in BackoffChoices :
          Settle(Answered(task[1], out, call.kind = "completion", d))
    /\ UNCHANGED <<win, rpm, model, calc_usage, now, last_call_time, waiter, admitted,
                   batch, chunks, bat>>

\* await asyncio.sleep(rounded_time) of async_retry_call returns.
BackoffEnd ==
    /\ call.pc = "running"
    /\ task[1].pc = "backoff"
    /\ now >= task[1].wake
    /\ Settle(Continue(task[1]))
    /\ UNCHANGED <<win, rpm, model, calc_usage, now, last_call_time, waiter, admitted,
                   batch, chunks, bat>>

\* tenacity's wait is over: the body of acompletion_text runs again.
Retry ==
    /\ call.pc = "waiting"
    /\ now >= call.wake
    /\ call' = [call EXCEPT !.pc = "running", !.attempt = @ + 1,
                            !.waited = now - call.ended,
                            !.collected_messages = <<>>, !.printed = <<>>,
                            !.invocations = @ + 1]
    /\ task' = [task EXCEPT ![1] = Invoked(Created(call.prompt))]
    /\ UNCHANGED <<win, rpm, model, calc_usage, now, last_call_time, waiter, admitted,
                   cost, ledger, batch, chunks, bat>>

\* ------------------------------------------------ _achat_completion_stream
\* metagpt.utils.token_counter: the request named n stands for a message
\* list of n tokens, and every character of a text is one token.
count_message_tokens(messages, m) == messages

count_string_tokens(string, m) == Len(string)

\* Python's {}.
EmptyDict == <<>>

\* OpenAIGPTAPI._calc_usage; counted: the token counter returned (when it
\* raises, the exception is logged and the function returns None).
_calc_usage(messages, rsp, counted) ==
    IF calc_usage
    THEN IF counted
         THEN [prompt_tokens |-> count_message_tokens(messages, model),
               completion_tokens |-> count_string_tokens(rsp, model)]
         ELSE None
    ELSE EmptyDict

\* m.get("content", "")
content_of(m) == IF HasKey(m, "content") THEN m.content ELSE <<>>

join_reversed(collected_messages) ==
    Flatten([j \in 1..Len(collected_messages) |->
                content_of(collected_messages[Len(collected_messages) + 1 - j])])

\* "".join([m.get("content", "") for m in collected_messages])
join(collected_messages) ==
    Flatten([j \in 1..Len(collected_messages) |-> content_of(collected_messages[j])])

print_twice(c, chunk_message) ==
    IF HasKey(chunk_message, "content")
    THEN [c EXCEPT !.printed = @ \o <<chunk_message.content, chunk_message.content>>]
    ELSE c

\* if "content" in chunk_message: print(chunk_message["content"], end="")
print(c, chunk_message) ==
    IF HasKey(chunk_message, "content")
    THEN [c EXCEPT !.printed = Append(@, chunk_message.content)]
    ELSE c

\* One turn of "async for chunk in response": the chunk is collected and
\* its content printed.
Collected(c, chunk_message) ==
    print([c EXCEPT !.collected_messages = Append(@, chunk_message)], chunk_message)

\* One turn of "async for chunk in response" in _achat_completion_stream:
\* the next chunk arrives, or the generator is exhausted and the function
\* runs to its return, or the generator raises.
StreamNext ==
    /\ call.pc = "streaming"
    /\ \/ /\ Len(call.collected_messages) < MaxChunks
          /\ \E chunk_message \in Deltas : call' = Collected(call, chunk_message)
          /\ UNCHANGED <<cost, ledger>>
       \/ \E counted \in BOOLEAN :
             LET full_reply_content == join(call.collected_messages)
                 usage == _calc_usage(call.prompt, full_reply_content, counted)
                 r == _update_costs(cost, usage)
             IN  /\ cost' = r.cm
                 /\ ledger' = Recorded(ledger, r, usage)
                 /\ call' = [call EXCEPT !.pc = "returned",
                                         !.result = full_reply_content]
       \/ /\ \E k \in StreamErrors :
                call' = Propagate(call, Raised(k, call.attempt, task[1].tries))
          /\ UNCHANGED <<cost, ledger>>
    /\ UNCHANGED <<win, rpm, model, calc_usage, now, last_call_time, waiter, admitted,
                   batch, chunks, bat, task>>

\* ------------------------------------------- RateLimiter.wait_if_needed
Waiter0 == [pc |-> "idle", num |-> 0, wake |-> 0]

\* History of the admissions (the assignments to last_call_time at the end
\* of wait_if_needed): how many, the value the last one replaced, and its
\* num_requests.
Admitted0 == [count |-> 0, prev |-> 0, num |-> 0]

\* elapsed_time = current_time - self.last_call_time
elapsed_time == now - last_call_time

\* if elapsed_time < self.interval * num_requests
needs_sleep(num_requests) == elapsed_time < Interval(rpm) * num_requests

remaining_time_one(num_requests) == Interval(rpm) - elapsed_time

\* remaining_time = self.interval * num_requests - elapsed_time
remaining_time(num_requests) == Interval(rpm) * num_requests - elapsed_time

\* self.last_call_time = time.time()
Admit(num_requests) ==
    /\ last_call_time' = now
    /\ admitted' = [count |-> admitted.count + 1, prev |-> last_call_time,
                    num |-> num_requests]

\* await asyncio.sleep(remaining_time)
Sleep(c, num_requests) ==
    /\ waiter' = [waiter EXCEPT ![c] = [pc |-> "sleeping", num |-> num_requests,
                                        wake |-> now + remaining_time(num_requests)]]
    /\ UNCHANGED <<last_call_time, admitted>>

\* wait_if_needed up to its await, or to its end when it does not sleep.
wait_if_needed(c, num_requests) ==
    IF needs_sleep(num_requests)
    THEN Sleep(c, num_requests)
    ELSE Admit(num_requests) /\ UNCHANGED waiter

\* wait_if_needed from the return of its sleep.
wait_if_needed_wake(c) ==
    /\ waiter[c].pc = "sleeping"
    /\ now >= waiter[c].wake
    /\ waiter' = [waiter EXCEPT ![c] = Waiter0]
    /\ Admit(waiter[c].num)

\* -------------------------------------------------------- acompletion_batch
\* The coroutine of acompletion_batch.  k is the index of the current chunk;
\* first is the child whose exception asyncio.gather has raised (0: none);
\* order and faults are history: the children of all chunks in the order in
\* which they returned or raised, and the number of exceptions the
\* transport raised.
Bat0 == [pc |-> "idle", k |-> 0, all_results |-> <<>>, err |-> NoError,
         first |-> 0, order |-> <<>>, faults |-> 0]

\* The request indexes of chunk k.
Children(cs, k) ==
    LET before == SumSeq([j \in 1..(k - 1) |-> Len(cs[j])])
    IN  [j \in 1..Len(cs[k]) |-> before + j]

InChunk(cs, k) == {Children(cs, k)[j] : j \in 1..Len(cs[k])}

gather_in_completion_order(children) ==
    [j \in 1..Len(children) |-> task[bat.order[Len(bat.all_results) + j]].rsp]

\* results = await asyncio.gather(*future): the results in the order of the
\* awaitables.
gather(children) == [j \in 1..Len(children) |-> task[children[j]].rsp]

\* future = [self.acompletion(prompt) for prompt in small_batch] and the
\* first step of each task asyncio.gather makes of them: every request of
\* the chunk is handed to the transport before any answer is processed.
Spawn(b, cs) ==
    /\ task' = [i \in DOMAIN task |->
                  IF i \in InChunk(cs, b.k)
                  THEN Invoked(Created(Flatten(cs)[i])) ELSE task[i]]
    /\ bat' = [b EXCEPT !.pc = "gather", !.first = 0]

\* One turn of "for small_batch in split_batches" up to its first await, or
\* the return after the loop.
Loop(b, cs) ==
    IF b.k > Len(cs)
    THEN /\ bat' = [b EXCEPT !.pc = "returned"]
         /\ UNCHANGED <<last_call_time, admitted, waiter, task>>
    ELSE /\ wait_if_needed(0, Len(cs[b.k]))
         /\ IF needs_sleep(Len(cs[b.k]))
            THEN bat' = [b EXCEPT !.pc = "pacing"] /\ UNCHANGED task
            ELSE Spawn(b, cs)

\* The caller awaits acompletion_batch(batch).
BatchStart ==
    /\ bat.pc = "idle"
    /\ \E n \in 0..MaxBatch :
          /\ batch' = [i \in 1..n |-> i]
          /\ chunks' = split_batches(batch', rpm)
          /\ Loop([Bat0 EXCEPT !.k = 1], chunks')
    /\ UNCHANGED <<win, rpm, model, calc_usage, now, cost, ledger, call>>

\* The pacing sleep of the current chunk is over.
BatchAdmit ==
    /\ bat.pc = "pacing"
    /\ wait_if_needed_wake(0)
    /\ Spawn(bat, chunks)
    /\ UNCHANGED <<win, rpm, model, calc_usage, now, cost, ledger, batch, chunks, call>>

gather_keeps_last(b, i, t1) ==
    IF t1.pc = "done" THEN [b EXCEPT !.order = Append(@, i)]
    ELSE IF t1.pc = "failed"
    THEN [b EXCEPT !.order = Append(@, i),
                   !.first = IF b.pc = "gather" THEN i ELSE @]
    ELSE b

\* asyncio.gather's bookkeeping when child i has moved to t1: the first
\* exception of a child is the one the gather raises.
Gathered(b, i, t1) ==
    IF t1.pc = "done" THEN [b EXCEPT !.order = Append(@, i)]
    ELSE IF t1.pc = "failed"
    THEN [b EXCEPT !.order = Append(@, i),
                   !.first = IF b.first = 0 /\ b.pc = "gather" THEN i ELSE @]
    ELSE b

\* The rest of _achat_completion of child i once its retry loop is at t1.
BatchSettle(i, t1, faults) ==
    /\ task' = [task EXCEPT ![i] = t1]
    /\ bat' = [Gathered(bat, i, t1) EXCEPT !.faults = @ + faults]
    /\ IF t1.pc = "done"
       THEN LET usage == _achat_completion_usage(t1.rsp)
                r == _update_costs(cost, usage)
            IN  /\ cost' = r.cm
                /\ ledger' = Recorded(ledger, r, usage)
       ELSE UNCHANGED <<cost, ledger>>

\* In a batch the response to request i reports a usage fixed by i, and the
\* transport raises the two kinds of exception that acompletion tells apart.
UsageOf(i) ==
    CASE i % 3 = 1 -> [prompt_tokens |-> 2, completion_tokens |-> 1]
      [] i % 3 = 2 -> [prompt_tokens |-> 0, completion_tokens |-> 3]
      [] OTHER -> None

BatchErrors == {"RateLimitError", "Timeout"}

\* The transport raises at most as many exceptions during a batch as let
\* one child exhaust its retries, and the back-off drawn is 0.0 s.
MaxFaults == MAX_TRY

BatchBackoff == {0}

\* The transport answers the invocation child i has in flight.
BatchRespond ==
    /\ \E i \in DOMAIN task :
          /\ task[i].pc = "inflight"
          /\ \E out \in Outcomes(task[i].prompt, {UsageOf(i)}, BatchErrors,
                                  i, task[i].tries),
                d \in BackoffChoices :
                /\ out.ok \/ bat.faults < MaxFaults
                /\ d \in BatchBackoff
                /\ BatchSettle(i, Answered(task[i], out, FALSE, d),
                               IF out.ok THEN 0 ELSE 1)
    /\ UNCHANGED <<win, rpm, model, calc_usage, now, last_call_time, waiter, admitted,
                   batch, chunks, call>>

\* The back-off sleep of child i is over.
BatchBackoffEnd ==
    /\ \E i \in DOMAIN task :
          /\ task[i].pc = "backoff"
          /\ now >= task[i].wake
          /\ BatchSettle(i, Continue(task[i]), 0)
    /\ UNCHANGED <<win, rpm, model, calc_usage, now, last_call_time, waiter, admitted,
                   batch, chunks, call>>

BatchResumeEarly ==
    /\ bat.pc = "gather"
    /\ \/ /\ bat.first # 0
          /\ bat' = [bat EXCEPT !.pc = "raised", !.err = task[bat.first].err]
          /\ UNCHANGED <<last_call_time, admitted, waiter, task>>
       \/ /\ bat.first = 0
          /\ \E i \in InChunk(chunks, bat.k) : task[i].pc = "done"
          /\ Loop([bat EXCEPT !.all_results = @ \o gather(Children(chunks, bat.k)),
                              !.k = @ + 1], chunks)
    /\ UNCHANGED <<win, rpm, model, calc_usage, now, cost, ledger, batch, chunks, call>>

\* await asyncio.gather(...) returns the results or raises the first
\* exception; then all_results.extend(results) and the next turn of the loop.
BatchResume ==
    /\ bat.pc = "gather"
    /\ \/ /\ bat.first # 0
          /\ bat' = [bat EXCEPT !.pc = "raised", !.err = task[bat.first].err]
          /\ UNCHANGED <<last_call_time, admitted, waiter, task>>
       \/ /\ bat.first = 0
          /\ \A i \in InChunk(chunks, bat.k) : task[i].pc = "done"
          /\ Loop([bat EXCEPT !.all_results = @ \o gather(Children(chunks, bat.k)),
                              !.k = @ + 1], chunks)
    /\ UNCHANGED <<win, rpm, model, calc_usage, now, cost, ledger, batch, chunks, call>>

BatchTickSteps == {Minute}

BatchTick == Elapse(BatchTickSteps, MaxTime)

InitBatch ==
    /\ rpm \in 1..MaxRpm
    /\ model \in Models
    /\ calc_usage \in BOOLEAN
    /\ now = StartTime
    /\ last_call_time = 0
    /\ waiter = [c \in 0..NumCallers |-> Waiter0]
    /\ admitted = Admitted0
    /\ cost = CostManager0
    /\ ledger = Ledger0
    /\ batch = <<>>
    /\ chunks = <<>>
    /\ bat = Bat0
    /\ task = [i \in 1..MaxBatch |-> Task0]
    /\ call = Call0
    /\ win = Win0

NextBatch ==
    BatchStart \/ BatchAdmit \/ BatchRespond \/ BatchBackoffEnd \/ BatchResume
    \/ BatchTick

SpecBatch == InitBatch /\ [][NextBatch]_vars

DEFAULT_RPM == 10


Init ==
    /\ rpm = DEFAULT_RPM
    /\ model \in Models
    /\ calc_usage \in BOOLEAN
    /\ now = StartTime
    /\ last_call_time = 0
    /\ waiter = [c \in 0..NumCallers |-> Waiter0]
    /\ admitted = Admitted0
    /\ cost = CostManager0
    /\ ledger = Ledger0
    /\ batch = <<>>
    /\ chunks = <<>>
    /\ bat = Bat0
    /\ task = [i \in 1..MaxBatch |-> Task0]
    /\ call = Call0
    /\ win = Win0

Tick == Elapse(TickSteps, MaxCallTime)

Next == Invoke \/ Respond \/ BackoffEnd \/ Retry \/ Tick

Spec == Init /\ [][Next]_vars

\* --------------------------- acompletion_text calls, streamed or not
\* The caller makes one call acompletion_text(messages, stream).
InvokeText ==
    /\ call.pc = "idle"
    /\ \E stream \in BOOLEAN : Called("acompletion_text", stream)

\* Time is looked at only when a sleeper is due.
TextTick == Elapse({}, MaxCallTime)

NextText == InvokeText \/ Respond \/ BackoffEnd \/ Retry \/ StreamNext \/ TextTick

SpecText == Init /\ [][NextText]_vars

\* ------------------- every completion operation, usage accounting disabled
InitNoUsage ==
    /\ rpm \in 1..MaxRpm
    /\ model \in Models
    /\ calc_usage = FALSE
    /\ now = StartTime
    /\ last_call_time = 0
    /\ waiter = [c \in 0..NumCallers |-> Waiter0]
    /\ admitted = Admitted0
    /\ cost = CostManager0
    /\ ledger = Ledger0
    /\ batch = <<>>
    /\ chunks = <<>>
    /\ bat = Bat0
    /\ task = [i \in 1..MaxBatch |-> Task0]
    /\ call = Call0
    /\ win = Win0

\* The caller makes single completion calls, one after the other ...
OpCall ==
    /\ bat.pc = "idle"
    /\ \E k \in Kinds, stream \in BOOLEAN :
          /\ stream => k = "acompletion_text"
          /\ Called(k, stream)

OpCallStep ==
    /\ bat.pc = "idle"
    /\ (Respond \/ BackoffEnd \/ Retry \/ StreamNext \/ TextTick)

\* ... or awaits acompletion_batch(batch).
OpBatch == call.pc = "idle" /\ BatchStart

OpBatchStep ==
    /\ bat.pc # "idle"
    /\ (BatchAdmit \/ BatchRespond \/ BatchBackoffEnd \/ BatchResume \/ BatchTick)

NextNoUsage == OpCall \/ OpCallStep \/ OpBatch \/ OpBatchStep

SpecNoUsage == InitNoUsage /\ [][NextNoUsage]_vars

\* --------------------------------------------- split_batches on its own
InitSplit ==
    /\ rpm \in 1..MaxRpm
    /\ model \in {"gpt-4"}
    /\ calc_usage = TRUE
    /\ now = StartTime
    /\ last_call_time = 0
    /\ waiter = [c \in 0..NumCallers |-> Waiter0]
    /\ admitted = Admitted0
    /\ cost = CostManager0
    /\ ledger = Ledger0
    /\ batch \in BoundedSeq(1..MaxItem, MaxBatch)
    /\ chunks = <<>>
    /\ bat = Bat0
    /\ task = [i \in 1..MaxBatch |-> Task0]
    /\ call = Call0
    /\ win = Win0

\* The caller evaluates split_batches(batch).
Split ==
    /\ bat.pc = "idle"
    /\ chunks' = split_batches(batch, rpm)
    /\ bat' = [bat EXCEPT !.pc = "split"]
    /\ UNCHANGED <<win, rpm, model, calc_usage, now, last_call_time, waiter, admitted,
                   cost, ledger, batch, task, call>>

NextSplit == Split

SpecSplit == InitSplit /\ [][NextSplit]_vars

\* ------------------------- wait_if_needed called directly, one call at a time
InitLimiter ==
    /\ rpm \in 1..MaxRpm
    /\ model \in {"gpt-4"}
    /\ calc_usage = TRUE
    /\ now = StartTime
    /\ last_call_time = 0
    /\ waiter = [c \in 0..NumCallers |-> Waiter0]
    /\ admitted = Admitted0
    /\ cost = CostManager0
    /\ ledger = Ledger0
    /\ batch = <<>>
    /\ chunks = <<>>
    /\ bat = Bat0
    /\ task = [i \in 1..MaxBatch |-> Task0]
    /\ call = Call0
    /\ win = Win0

\* A caller awaits wait_if_needed(k) while no other call of it is active.
LimiterCall ==
    /\ \A c \in DOMAIN waiter : waiter[c].pc = "idle"
    /\ \E c \in 1..NumCallers, k \in 1..MaxK : wait_if_needed(c, k)
    /\ UNCHANGED <<win, rpm, model, calc_usage, now, cost, ledger, batch, chunks, bat,
                   task, call>>

\* The sleep of a call of wait_if_needed is over.
LimiterWake ==
    /\ \E c \in 1..NumCallers : wait_if_needed_wake(c)
    /\ UNCHANGED <<win, rpm, model, calc_usage, now, cost, ledger, batch, chunks, bat,
                   task, call>>

LimiterTickSteps == {Minute \div 2}

LimiterTick == Elapse(LimiterTickSteps, MaxTime)

NextLimiter == LimiterCall \/ LimiterWake \/ LimiterTick

SpecLimiter == InitLimiter /\ [][NextLimiter]_vars

\* --------------------- wait_if_needed called by concurrently scheduled tasks
\* A task awaits wait_if_needed(k), whether or not another task's call of it
\* is suspended in its sleep.
ConcurrentCall ==
    /\ \E c \in 1..NumCallers :
          /\ waiter[c].pc = "idle"
          /\ \E k \in 1..MaxK : wait_if_needed(c, k)
    /\ UNCHANGED <<win, rpm, model, calc_usage, now, cost, ledger, batch, chunks, bat,
                   task, call>>

NextConcurrent == ConcurrentCall \/ LimiterWake \/ LimiterTick

SpecConcurrent == InitLimiter /\ [][NextConcurrent]_vars

\* ------------------------------------------------- split_texts on its own
\* A text of n characters, each character named by its position.
Text(n) == [i \in 1..n |-> i]

\* padding_size = 20 if window_size > 20 else 0
padding_size_of(window_size) == IF window_size > PADDING THEN PADDING ELSE 0

\* for i in range(len(windows)): ... windows[i] += windows[i + 1][0:padding_size]
padded(windows, padding_size) ==
    [i \in 1..Len(windows) |->
        IF i = Len(windows) THEN windows[i]
        ELSE windows[i] \o Slice(windows[i + 1], 0, padding_size)]

\* split_texts(text, window_size) up to its return or to the first test of
\* the while loop.
SplitTextsCall ==
    /\ win.pc = "idle"
    /\ \E n \in 0..MaxTextLen, window_size \in 1..MaxWindowSize :
          LET text == Text(n)
          IN  win' = IF Len(text) <= window_size
                     THEN [Win0 EXCEPT !.pc = "returned", !.text = text,
                                       !.window_size = window_size,
                                       !.windows = <<text>>]
                     ELSE [Win0 EXCEPT !.pc = "loop", !.text = text,
                                       !.window_size = window_size,
                                       !.padding_size = padding_size_of(window_size)]
    /\ UNCHANGED <<rpm, model, calc_usage, now, last_call_time, waiter, admitted,
                   cost, ledger, batch, chunks, bat, task, call>>

\* One turn of "while idx < total_len" that does not break:
\* w = text[idx:data_len]; windows.append(w), and idx is left as it is.
loop_body(w) ==
    LET data_len == w.window_size - w.padding_size
    IN  [w EXCEPT !.windows = Append(@, Slice(w.text, w.idx, data_len))]

\* The test of the while loop and one turn of it, or the rest of the
\* function after the loop.  The list of windows kept is cut at MaxWindows.
SplitTextsLoop ==
    /\ win.pc = "loop"
    /\ Len(win.windows) < MaxWindows
    /\ LET total_len == Len(win.text)
           data_len == win.window_size - win.padding_size
       IN  win' =
             IF ~(win.idx < total_len)
             THEN [win EXCEPT !.pc = "returned",
                              !.windows = padded(@, win.padding_size)]
             ELSE IF data_len + win.idx > total_len
             THEN [win EXCEPT !.pc = "returned",
                              !.windows =
                                  padded(Append(@, Slice(win.text, win.idx, total_len)),
                                         win.padding_size)]
             ELSE loop_body(win)
    /\ UNCHANGED <<rpm, model, calc_usage, now, last_call_time, waiter, admitted,
                   cost, ledger, batch, chunks, bat, task, call>>

NextSplitTexts == SplitTextsCall \/ SplitTextsLoop

SpecSplitTexts == Init /\ [][NextSplitTexts]_vars

\* ================================================================== claims

\* The least q with q * r >= n.
Ceil(n, r) == CHOOSE q \in 0..n : q * r >= n /\ (q = 0 \/ (q - 1) * r < n)

\* C1: for every rpm > 0 and every list of n items, split_batches gives
\* exactly ceil(n/rpm) chunks, every chunk but the last has exactly rpm
\* items, the last chunk is non-empty with at most rpm items, and the chunks
\* concatenated in order are the original list.
C1_SplitBatches ==
    bat.pc = "split" =>
        LET q == Ceil(Len(batch), rpm)
        IN  /\ Len(chunks) = q
            /\ \A j \in 1..(q - 1) : Len(chunks[j]) = rpm
            /\ q > 0 => (Len(chunks[q]) >= 1 /\ Len(chunks[q]) <= rpm)
            /\ Flatten(chunks) = batch

C1_Witness ==
    /\ bat.pc = "split"
    /\ rpm = 2
    /\ Len(batch) = 3
    /\ Len(chunks) = 2
    /\ Len(chunks[2]) = 1

\* C2: for wait_if_needed(k) calls that do not overlap, the time at which a
\* call sets last_call_time is at least interval * k later than the time
\* at which the call before it did, where interval = 1.1 * 60 / rpm seconds
\* (times are in tenths of a second: 10 * gap >= 11 * 600 * k / rpm).
C2_Spacing ==
    admitted.count >= 2 =>
        (last_call_time - admitted.prev) * 10 * rpm >= 11 * 600 * admitted.num

C2_Witness ==
    /\ admitted.count >= 2
    /\ admitted.num = 2
    /\ (last_call_time - admitted.prev) * 10 * rpm = 11 * 600 * 2

\* The requests of the batch that have been handed to the transport.
Dispatched == {i \in DOMAIN task : task[i].sent >= 0}

\* C3: during one acompletion_batch call in which no transport call is
\* retried, the number of requests dispatched within any window of 60
\* seconds never exceeds rpm.
C3_RateRespected ==
    (bat.pc # "idle" /\ \A i \in DOMAIN task : task[i].tries <= 1)
    => \A i \in Dispatched :
          Cardinality({j \in Dispatched :
                          /\ task[j].sent >= task[i].sent
                          /\ task[j].sent < task[i].sent + 600}) <= rpm

\* C4: CostManager accounting is additive and monotonic: after any sequence
\* of update_cost calls that returned, also calls made by the concurrent
\* tasks of one chunk in any completion order, the token totals are the
\* sums of the arguments, total_cost is the sum of the costs of the single
\* calls, and total_cost never decreases from one state to the next.
C4_Additive ==
    /\ [](ledger.failed = 0 =>
            /\ cost.total_prompt_tokens = ledger.prompt
            /\ cost.total_completion_tokens = ledger.completion
            /\ cost.total_cost = ledger.cost)
    /\ [][cost'.total_cost >= cost.total_cost]_vars

C4_Witness ==
    /\ bat.pc = "gather"
    /\ bat.order = <<2, 1>>
    /\ ledger.calls = 2
    /\ cost.total_cost = ledger.cost
    /\ cost.total_prompt_tokens = 2
    /\ cost.total_completion_tokens = 4

\* C5: strategy-1 retry (retry_call and async_retry_call): when func raised
\* a rate-limit error on its first k attempts (k < 5) and then returned,
\* func was invoked exactly k+1 times and its result is what the retry
\* returns; when func raised a non-rate-limit error on attempt j, func was
\* invoked exactly j times and that same error object is what propagates.
C5_Strategy1 ==
    \A i \in DOMAIN task :
        LET t == task[i]
        IN  /\ t.pc = "done" => /\ t.rl < 5
                                /\ t.tries = t.rl + 1
                                /\ t.rsp = t.ret
            /\ (t.pc = "failed" /\ t.exc.kind # "RateLimitError")
                  => /\ t.tries = t.exc.at
                     /\ t.err = t.exc

C5_Witness ==
    /\ call.kind = "completion"
    /\ task[1].pc = "done"
    /\ task[1].rl = 2
    /\ task[1].tries = 3

\* C6: strategy-1 retry never invokes func more than 5 times in one call;
\* when func raised a rate-limit error on every attempt, func was invoked
\* exactly 5 times and the call failed with the generic retries-exhausted
\* error, which is neither the rate-limit error nor a return value.
C6_Exhausted ==
    \A i \in DOMAIN task :
        LET t == task[i]
        IN  /\ t.tries <= 5
            /\ t.rl = 5 => t.pc \in {"backoff", "failed"}
            /\ (t.pc = "failed" /\ t.rl = t.tries)
                  => /\ t.tries = 5
                     /\ t.err.kind = "OpenAIError"
                     /\ t.err # t.exc
                     /\ t.rsp = None

C6_Witness ==
    /\ call.kind = "acompletion"
    /\ task[1].pc = "failed"
    /\ task[1].rl = 5
    /\ call.pc = "raised"
    /\ call.err.kind = "OpenAIError"

\* C7: strategy-2 retry around acompletion_text: the body runs at most 3
\* times and consecutive runs are at least 1 second apart; when every run
\* raised the connectivity exception, the body ran exactly 3 times and the
\* caller gets the connectivity exception of the last run itself; when the
\* body raised another kind of exception, it is not run again and that
\* exception propagates (after a first run: exactly one run).
C7_Strategy2 ==
    call.kind = "acompletion_text" =>
        /\ call.attempt <= 3
        /\ call.attempt >= 2 => call.waited >= Second
        /\ (call.pc = "raised" /\ call.conn = call.attempt)
              => /\ call.attempt = 3
                 /\ call.err = task[1].exc
                 /\ call.err.kind = "APIConnectionError"
                 /\ call.err.by = 3
        /\ (call.pc = "raised" /\ call.conn < call.attempt)
              => /\ call.conn = call.attempt - 1
                 /\ call.err = task[1].err
                 /\ call.err.kind # "APIConnectionError"
        /\ (call.pc = "raised" /\ call.conn = 0) => call.attempt = 1

C7_Witness ==
    /\ call.kind = "acompletion_text"
    /\ call.pc = "raised"
    /\ call.attempt = 3
    /\ call.conn = 3
    /\ call.err.kind = "APIConnectionError"

\* C8: when all calls succeed, acompletion_batch returns a list as long as
\* the batch whose i-th element is the response to the i-th request,
\* whatever the order in which the calls of a chunk completed.
C8_ResultOrder ==
    bat.pc = "returned" =>
        /\ Len(bat.all_results) = Len(batch)
        /\ \A i \in 1..Len(batch) :
              /\ bat.all_results[i].req = batch[i]
              /\ bat.all_results[i] = task[i].ret

C8_Witness ==
    /\ bat.pc = "returned"
    /\ rpm = 2
    /\ Len(batch) = 3
    /\ bat.order = <<2, 1, 3>>

\* The batch call has ended; the children that have raised, and the one
\* that raised first.
BatchEnded == bat.pc \in {"returned", "raised"}

Failed == {i \in DOMAIN task : task[i].pc = "failed"}

FirstFailed ==
    bat.order[CHOOSE j \in 1..Len(bat.order) :
                 /\ bat.order[j] \in Failed
                 /\ \A h \in 1..(j - 1) : bat.order[h] \notin Failed]

\* The requests of the chunks after the current one.
LaterChunks == {i \in 1..Len(batch) : \A j \in InChunk(chunks, bat.k) : i > j}

\* C9 as claimed: if any call within a chunk fails, the whole
\* acompletion_batch call fails with that error, returns no partial result
\* list and dispatches no request of any later chunk.
C9_FailsWithThatError ==
    BatchEnded =>
        \A i \in Failed :
            /\ bat.pc = "raised"
            /\ bat.err = task[i].err
            /\ \A j \in LaterChunks : task[j].tries = 0

\* C9 as amended: if any call within a chunk fails, the whole
\* acompletion_batch call fails with the error of the call of that chunk
\* that failed first, returns no partial result list and dispatches no
\* request of any later chunk.
C9_FailsWithFirstError ==
    /\ (bat.pc = "gather" /\ Failed # {}) => bat.first = FirstFailed
    /\ (BatchEnded /\ Failed # {})
          => /\ bat.pc = "raised"
             /\ bat.err = task[FirstFailed].err
             /\ bat.err.by = FirstFailed
             /\ \A j \in LaterChunks : task[j].tries = 0

C9_Witness ==
    /\ bat.pc = "raised"
    /\ rpm = 2
    /\ Len(batch) = 3
    /\ bat.order = <<2, 1>>
    /\ Failed = {2}
    /\ task[2].tries = 5
    /\ bat.err = task[2].err
    /\ bat.err.kind = "OpenAIError"
    /\ task[3].tries = 0

\* C10: after every successful completion() or acompletion() call made with
\* usage accounting enabled, a priced model and a response that reports
\* usage, total_prompt_tokens and total_completion_tokens have grown by
\* exactly the prompt_tokens and completion_tokens of that usage.
C10_UsageCounted ==
    (/\ call.kind \in {"completion", "acompletion"}
     /\ call.pc = "returned"
     /\ calc_usage
     /\ model \in DOMAIN TOKEN_COSTS
     /\ HasKey(call.result, "usage"))
    => /\ cost.total_prompt_tokens
            = call.before.total_prompt_tokens + call.result.usage.prompt_tokens
       /\ cost.total_completion_tokens
            = call.before.total_completion_tokens + call.result.usage.completion_tokens

\* C11: when the client's model is absent from the price table and usage
\* accounting is enabled, the failure of cost accounting is surfaced to the
\* caller: no completion call returns a normal result after its update_cost
\* raised for the unknown model.
C11_UnknownModelSurfaced ==
    (calc_usage /\ model \notin DOMAIN TOKEN_COSTS /\ call.pc = "returned")
    => ledger.failed = 0

\* C12: within acompletion_batch, chunk N+1 never starts its pacing wait and
\* none of its requests is dispatched while any call of chunk N is still
\* unresolved: all calls of chunk N have completed before wait_if_needed
\* for chunk N+1 begins.
C12_ChunkBarrier ==
    LET earlier == SumSeq([j \in 1..(bat.k - 1) |-> Len(chunks[j])])
        upto == IF bat.pc = "pacing" THEN earlier ELSE earlier + Len(chunks[bat.k])
    IN  /\ bat.pc \in {"pacing", "gather"}
              => /\ \A i \in 1..earlier : task[i].pc \in {"done", "failed"}
                 /\ \A i \in (upto + 1)..Len(batch) : task[i].sent < 0
        /\ waiter[0].pc = "sleeping" => bat.pc = "pacing"

C12_Witness ==
    /\ rpm = 2
    /\ Len(batch) = 3
    /\ bat.k = 2
    /\ bat.pc = "pacing"
    /\ waiter[0].pc = "sleeping"
    /\ bat.order = <<2, 1>>
    /\ task[1].tries = 2
    /\ task[3].sent < 0

\* C13: when several tasks sharing one client call wait_if_needed
\* concurrently, interleaving only at the sleep, any two consecutive
\* admissions are spaced by at least interval * n, n being the num_requests
\* of the later admission, measured from the previous admission.
C13_ConcurrentSpacing ==
    admitted.count >= 2
    => (last_call_time - admitted.prev) * 10 * rpm >= 11 * Minute * admitted.num

\* C14: the retries-exhausted error raised by strategy-1 retry after
\* MAX_TRY rate-limit failures carries the last underlying rate-limit
\* exception as its cause.
C14_ExhaustedCause ==
    \A i \in DOMAIN task :
        (task[i].pc = "failed" /\ task[i].err.kind = "OpenAIError")
        => task[i].err.cause = task[i].exc.kind

\* C15: when usage accounting is disabled (calc_usage false), every
\* completion operation (completion, acompletion, streamed and non-streamed
\* acompletion_text, acompletion_batch) leaves all CostManager fields
\* unchanged, and update_cost is never invoked, not even with zero counts.
C15_NoAccounting ==
    ~calc_usage => /\ cost = CostManager0
                   /\ ledger = Ledger0

C15_Witness ==
    /\ ~calc_usage
    /\ call.n = 2
    /\ call.kind = "acompletion_text"
    /\ call.stream
    /\ call.pc = "returned"
    /\ call.result = <<"b", "c", "a">>
    /\ cost = CostManager0

\* The content fragments of the chunks ms, in arrival order, and their
\* concatenation.
RECURSIVE FragmentsOf(_)
FragmentsOf(ms) ==
    IF ms = <<>> THEN <<>>
    ELSE IF "content" \in DOMAIN Head(ms)
    THEN <<Head(ms).content>> \o FragmentsOf(Tail(ms))
    ELSE FragmentsOf(Tail(ms))

RECURSIVE Concat(_)
Concat(fs) == IF fs = <<>> THEN <<>> ELSE Head(fs) \o Concat(Tail(fs))

\* C16: the streamed completion returns the concatenation, in arrival
\* order, of the content fragments of all chunks (chunks without content
\* contribute nothing), prints each content fragment exactly once in
\* arrival order as it arrives, and updates the CostManager only after the
\* stream is exhausted, with the locally counted tokens of the input
\* messages and of the full reply text.
C16_Streamed ==
    call.stream =>
        /\ call.printed = FragmentsOf(call.collected_messages)
        /\ call.pc # "returned"
              => /\ cost = call.before
                 /\ ledger = Ledger0
        /\ call.pc = "returned"
              => /\ call.result = Concat(FragmentsOf(call.collected_messages))
                 /\ \/ /\ cost = call.before
                       /\ ledger = Ledger0
                    \/ /\ calc_usage
                       /\ ledger.calls + ledger.failed = 1
                       /\ cost.total_prompt_tokens
                            = call.before.total_prompt_tokens + call.prompt
                       /\ cost.total_completion_tokens
                            = call.before.total_completion_tokens + Len(call.result)
                       /\ ledger.calls = 1
                             => /\ ledger.prompt = call.prompt
                                /\ ledger.completion = Len(call.result)
                                /\ cost.total_cost = ledger.cost

C16_Witness ==
    /\ call.stream
    /\ call.pc = "returned"
    /\ call.attempt = 2
    /\ call.collected_messages = <<[content |-> <<"b", "c">>], [content |-> <<"a">>]>>
    /\ call.printed = << <<"b", "c">>, <<"a">> >>
    /\ call.result = <<"b", "c", "a">>
    /\ ledger.calls = 1
    /\ cost.total_completion_tokens = 3

\* C17: split_texts terminates for every text and every window_size > 0:
\* when len(text) <= window_size it returns the single window [text], and
\* when len(text) > window_size every turn of the window-building loop
\* advances through the text (so that the loop ends), and the windows
\* returned are finitely many, no more than the text has characters.
C17_SplitTextsTerminates ==
    /\ [](/\ (win.pc = "returned" /\ Len(win.text) <= win.window_size)
               => win.windows = <<win.text>>
          /\ Len(win.windows) <= Len(win.text) + 1)
    /\ [][(win.pc = "loop" /\ win'.pc = "loop") => win'.idx > win.idx]_vars

\* C18: CostManager.update_cost is all-or-nothing: when the price lookup
\* for the model fails, none of total_prompt_tokens,
\* total_completion_tokens and total_cost has changed, so the three totals
\* always describe the same set of calls, those that returned.
C18_AllOrNothing ==
    /\ cost.total_prompt_tokens = ledger.prompt
    /\ cost.total_completion_tokens = ledger.completion
    /\ cost.total_cost = ledger.cost

\* C19: one acompletion_text call invokes the transport at most
\* 3 * 5 = 15 times for any pattern of rate-limit and connectivity
\* failures, and a strategy-1 retries-exhausted error is not retried by
\* strategy 2: it ends the call after that single outer attempt.
C19_ComposedBound ==
    call.kind = "acompletion_text" =>
        /\ call.invocations <= 3 * 5
        /\ (task[1].pc = "failed" /\ task[1].err.kind = "OpenAIError")
              => /\ call.pc = "raised"
                 /\ call.err = task[1].err
                 /\ call.conn = call.attempt - 1

C19_Witness ==
    /\ call.kind = "acompletion_text"
    /\ call.invocations = 15
    /\ call.attempt = 3
    /\ call.conn = 2
    /\ call.pc = "raised"
    /\ call.err.kind = "OpenAIError"

\* C20: one acompletion_text call (streamed or not) updates the CostManager
\* at most once, whatever number of strategy-1 and strategy-2 retries
\* occur: attempts that fail, including a streamed attempt that fails
\* part-way through the stream, add nothing to the totals, and a call that
\* finally fails adds nothing at all.
C20_AtMostOneUpdate ==
    /\ [](call.kind = "acompletion_text" =>
            /\ call.pc # "returned" => /\ cost = call.before
                                       /\ ledger = Ledger0
            /\ call.pc = "returned"
                  => /\ ledger.calls + ledger.failed <= 1
                     /\ ledger.failed = 0
                           => /\ cost.total_prompt_tokens
                                   = call.before.total_prompt_tokens + ledger.prompt
                              /\ cost.total_completion_tokens
                                   = call.before.total_completion_tokens
                                     + ledger.completion
                              /\ cost.total_cost
                                   = call.before.total_cost + ledger.cost)
    /\ [][(cost' # cost \/ ledger' # ledger)
            => (call.pc # "returned" /\ call'.pc = "returned")]_vars

C20_Witness ==
    /\ call.kind = "acompletion_text"
    /\ call.stream
    /\ calc_usage
    /\ call.pc = "waiting"
    /\ call.attempt = 2
    /\ call.conn = 2
    /\ task[1].tries = 3
    /\ Len(call.printed) = 2
    /\ cost = call.before

====
